---- MODULE Spec2Model ----
(***************************************************************************)
(* Model of playlist_downloader.py (PlaylistDownloader): the incremental   *)
(* archive engine with its two JSON stores (global_video_index.json and    *)
(* one playlist_metadata.json per playlist directory), the retrying        *)
(* download_video, copy_video_from_another_playlist and the per-video      *)
(* decision loop of process_playlist.                                      *)
(***************************************************************************)
EXTENDS Integers, Sequences, FiniteSets, TLC

\* ------------------------------------------------------------------------
\* Bounds and program constants
\* ------------------------------------------------------------------------
MaxRuns == 2

MAX_RETRIES == 3

\* The video ids the connector knows.
Items == {"X", "Y"}

\* entry.get('id') of an entry that carries no id (Python's None), and the
\* key json.dump writes for it.
NoId == "None"

NullKey == "null"

\* What can be a key of metadata['videos'] and of the global index.
Keys == Items \cup {NoId, NullKey}

\* The playlist directories.
Lists == {"A", "B", "C"}

\* ------------------------------------------------------------------------
\* Data
\* ------------------------------------------------------------------------
\* A file in a playlist directory. Files are named after the video title
\* ('%(title)s.%(ext)s'); item stands for that title-derived base name and
\* kind tells the media file from a sidecar (subtitle, thumbnail) of the
\* same base name.
MkPath(l, v, k) == [dir |-> l, item |-> v, kind |-> k]

NoPath == [dir |-> "none", item |-> "none", kind |-> "none"]

\* An entry of metadata['videos']; NoPath stands for an absent key and the
\* status "none" for an absent entry.
NoRec == [status |-> "none", at |-> 0, file |-> NoPath, copied_from |-> NoPath]

DownloadedFileRec(t, p) ==
    [status |-> "downloaded", at |-> t, file |-> p, copied_from |-> NoPath]

\* Variant: the copy is recorded like a direct download.
CopiedRec_AsFile(t, src) ==
    [status |-> "downloaded", at |-> t, file |-> src, copied_from |-> NoPath]

\* Variant: the copy is recorded with both provenance fields.
CopiedRec_Both(t, src) ==
    [status |-> "downloaded", at |-> t, file |-> src, copied_from |-> src]

CopiedRec(t, src) ==
    [status |-> "downloaded", at |-> t, file |-> NoPath, copied_from |-> src]

\* Variant: a failed download leaves no record.
FailedRec_Unrecorded(t) == NoRec

FailedRec(t) ==
    [status |-> "failed", at |-> t, file |-> NoPath, copied_from |-> NoPath]

EmptyMetadata == [v \in Keys |-> NoRec]

EmptyIndex == [v \in Keys |-> <<>>]

\* json.dump followed by json.load: the key None is written as "null" (after
\* a loaded "null" entry, so it is the one json.load keeps); every other
\* key comes back as it was.
JsonRoundTrip(m, absent) ==
    [k \in Keys |->
        IF k = NoId THEN absent
        ELSE IF k = NullKey /\ m[NoId] # absent THEN m[NoId]
        ELSE m[k]]

SeqToSet(s) == {s[i] : i \in 1..Len(s)}

VARIABLES
    disk,        \* media files present under the output directory (whether
                 \* their sidecars were written is the connector's choice and
                 \* is not recorded)
    hasId,       \* items whose title (hence file name) contains the video id
    scenario,    \* which channel the connector serves
    gidxDisk,    \* content of global_video_index.json
    gidxBad,     \* global_video_index.json is not valid JSON
    metaDisk,    \* content of each playlist_metadata.json
    metaBad,     \* playlists whose playlist_metadata.json is not valid JSON
    pc,          \* position of the running process, "idle" when none runs
    run,         \* number of launches so far (also the clock of datetime.now)
    li,          \* index of the playlist being processed
    vi,          \* index of the video being processed
    videos,      \* result of get_playlist_videos for the current playlist
    gidx,        \* self.global_index
    meta,        \* metadata['videos'] of the current playlist
    copyRes,     \* what copy_video_from_another_playlist did for this video
    attempt,     \* loop variable of download_video
    waits,       \* the time.sleep arguments of the current download_video call
    outcomes,    \* what each attempt of the current download_video call did
    dlResult,    \* return value of download_video
    outcome,     \* how the last ended run ended
    full,        \* the current run has enumerated and processed every list
    done,        \* (list, item) pairs ever persisted as downloaded
    fetchedOnce  \* items some download_video call has fetched successfully

persistent == <<disk, hasId, scenario, gidxDisk, gidxBad, metaDisk, metaBad>>

process == <<pc, li, vi, videos, gidx, meta>>

fetcher == <<copyRes, attempt, waits, outcomes, dlResult>>

history == <<run, outcome, full, done, fetchedOnce>>

vars == <<persistent, process, fetcher, history>>

\* get_all_playlists: the playlists of the channel. "spec" and "anon" have
\* List A and List B, "three" has three playlists.
ChannelPlaylists ==
    IF scenario = "three" THEN <<"A", "B", "C">> ELSE <<"A", "B">>

\* get_playlist_videos: the entry ids of a playlist, in playlist order.
\* "spec" is the spec's scenario, List A = [X, Y] and List B = [X]; in
\* "anon" List B ends with an entry that carries no id; in "three" every
\* playlist is [X].
PlaylistEntries(l) ==
    CASE scenario = "three" -> <<"X">>
      [] scenario = "anon"  -> IF l = "A" THEN <<"X", "Y">> ELSE <<"X", NoId>>
      [] OTHER              -> IF l = "A" THEN <<"X", "Y">> ELSE <<"X">>

\* ------------------------------------------------------------------------
\* Initial state: a fresh output directory, nothing archived yet.
\* ------------------------------------------------------------------------
Fresh ==
    /\ disk = {}
    /\ hasId \in SUBSET Items
    /\ gidxDisk = EmptyIndex
    /\ gidxBad = FALSE
    /\ metaDisk = [l \in Lists |-> EmptyMetadata]
    /\ metaBad = {}
    /\ pc = "idle"
    /\ run = 0
    /\ li = 0
    /\ vi = 0
    /\ videos = <<>>
    /\ gidx = EmptyIndex
    /\ meta = EmptyMetadata
    /\ copyRes = "none"
    /\ attempt = 0
    /\ waits = <<>>
    /\ outcomes = <<>>
    /\ dlResult = NoPath
    /\ outcome = "none"
    /\ full = TRUE
    /\ done = {}
    /\ fetchedOnce = {}

Init == scenario = "spec" /\ Fresh

InitAnon == scenario = "anon" /\ Fresh

InitThree == scenario = "three" /\ Fresh

\* The process-local state once the process has ended.
ProcessGone ==
    /\ pc' = "idle"
    /\ li' = 0
    /\ vi' = 0
    /\ videos' = <<>>
    /\ gidx' = EmptyIndex
    /\ meta' = EmptyMetadata
    /\ copyRes' = "none"
    /\ attempt' = 0
    /\ waits' = <<>>
    /\ outcomes' = <<>>
    /\ dlResult' = NoPath

FetcherReset ==
    /\ copyRes' = "none"
    /\ attempt' = 0
    /\ waits' = <<>>
    /\ outcomes' = <<>>
    /\ dlResult' = NoPath

\* ------------------------------------------------------------------------
\* Pure helpers of the decision loop
\* ------------------------------------------------------------------------
CurrentList == ChannelPlaylists[li]

CurrentVideo == videos[vi]

\* Variant: a downloaded record counts only while its file is on disk.
AlreadyDownloaded_IfFileKept(m, v) ==
    m[v].status = "downloaded" /\ m[v].file \in disk

\* Variant: the status check is missing.
AlreadyDownloaded_Never(m, v) == FALSE

\* Variant: every video that has a record is skipped.
AlreadyDownloaded_AnyRecord(m, v) == m[v].status # "none"

\* process_playlist: video_id in metadata['videos'] and status == 'downloaded'
AlreadyDownloaded(m, v) == m[v].status = "downloaded"

\* Variant: the global index is never consulted.
InGlobalIndex_Never(g, v) == FALSE

\* process_playlist / copy_video_from_another_playlist: video_id in global_index
InGlobalIndex(g, v) == g[v] # <<>>

\* Variant: the first recorded path that still exists is the source.
SourceFile_FirstExisting(g, v) ==
    LET ex == {i \in 1..Len(g[v]) : g[v][i] \in disk}
    IN  IF ex = {}
          THEN g[v][1]
          ELSE g[v][CHOOSE i \in ex : \A j \in ex : i <= j]

\* copy_video_from_another_playlist: source_files[0]
SourceFile(g, v) == g[v][1]

\* process_playlist: playlist_dir.glob("*<video_id>*"); a file matches only
\* when its title-derived name contains the id, and then the sidecars copied
\* next to it match as well (glob's order is the file system's)
GlobVideoId(d, l, v) ==
    IF v \in hasId /\ MkPath(l, v, "media") \in d
      THEN {MkPath(l, v, "media"), MkPath(l, v, "side")}
      ELSE {}

\* process_playlist, copy branch: append file_path unless already listed
AppendIfAbsent(files, p) ==
    IF p \in SeqToSet(files) THEN files ELSE Append(files, p)

\* Variant: the fetched path replaces what was recorded.
AppendFile_Replace(files, p) == <<p>>

\* process_playlist, download branch: files.append(downloaded_file)
AppendFile(files, p) == Append(files, p)

\* Variant: the exponent counts attempts from zero.
Backoff_FromZero(a) == 2 ^ (a - 1)

\* download_video: wait_time = 2 ** attempt
Backoff(a) == 2 ^ a

\* download_video: the sleep sits in the except branch, under attempt < MAX_RETRIES
ShouldWait(o, a) == o = "error" /\ a < MAX_RETRIES

\* Variant: the loop makes one attempt more than MAX_RETRIES.
LastAttempt_OneMore == MAX_RETRIES + 1

\* Variant: range(1, MAX_RETRIES).
LastAttempt_OneShort == MAX_RETRIES - 1

\* download_video: range(1, MAX_RETRIES + 1)
LastAttempt == MAX_RETRIES

\* ------------------------------------------------------------------------
\* main / __init__ : a launch of the program loads the global index
\* ------------------------------------------------------------------------
Launch ==
    /\ pc = "idle"
    /\ run < MaxRuns
    /\ run' = run + 1
    /\ IF gidxBad
         THEN \* json.load raises in __init__, nothing catches it
              /\ outcome' = "crashed"
              /\ UNCHANGED <<process, full>>
         ELSE /\ gidx' = gidxDisk
              /\ pc' = "run"
              /\ full' = TRUE
              /\ UNCHANGED <<li, vi, videos, meta, outcome>>
    /\ UNCHANGED <<persistent, fetcher, done, fetchedOnce>>

\* run: get_all_playlists and the "No playlists found" early return
RunStart ==
    /\ pc = "run"
    /\ \E ok \in BOOLEAN :
         IF ok
           THEN /\ pc' = "list"
                /\ li' = 1
                /\ UNCHANGED <<vi, videos, gidx, meta, outcome>>
           ELSE /\ pc' = "idle"
                /\ gidx' = EmptyIndex
                /\ outcome' = "nolists"
                /\ UNCHANGED <<li, vi, videos, meta>>
    /\ UNCHANGED <<persistent, fetcher, run, full, done, fetchedOnce>>

\* run: the for loop moves on to the next playlist, or the run ends
NextPlaylist(fullNow) ==
    IF li < Len(ChannelPlaylists)
      THEN /\ pc' = "list"
           /\ li' = li + 1
           /\ vi' = 0
           /\ videos' = <<>>
           /\ meta' = EmptyMetadata
           /\ full' = fullNow
           /\ UNCHANGED <<gidx, outcome>>
      ELSE /\ pc' = "idle"
           /\ li' = 0
           /\ vi' = 0
           /\ videos' = <<>>
           /\ meta' = EmptyMetadata
           /\ gidx' = EmptyIndex
           /\ full' = TRUE
           /\ outcome' = IF fullNow THEN "finished" ELSE "partial"

\* process_playlist up to the video loop: load the metadata document and
\* enumerate the playlist; a json.load error propagates to run's except
LoadPlaylist ==
    /\ pc = "list"
    /\ IF CurrentList \in metaBad
         THEN NextPlaylist(FALSE)
         ELSE /\ meta' = metaDisk[CurrentList]
              /\ \E ok \in BOOLEAN :
                   /\ videos' = IF ok THEN PlaylistEntries(CurrentList) ELSE <<>>
                   /\ full' = (full /\ ok)
              /\ vi' = 1
              /\ pc' = "item"
              /\ UNCHANGED <<li, gidx, outcome>>
    /\ UNCHANGED <<persistent, fetcher, run, done, fetchedOnce>>

\* process_playlist after the video loop: generate_html_index and return
FinishPlaylist ==
    /\ pc = "item"
    /\ vi > Len(videos)
    /\ NextPlaylist(full)
    /\ UNCHANGED <<persistent, fetcher, run, done, fetchedOnce>>

\* Variant: a skipped video gets its record refreshed and saved.
SkipVideo_Refresh ==
    /\ pc = "item"
    /\ vi <= Len(videos)
    /\ meta[CurrentVideo].status = "downloaded"
    /\ meta' = [meta EXCEPT ![CurrentVideo].at = run]
    /\ pc' = "save_meta"
    /\ UNCHANGED <<li, vi, videos, gidx>>
    /\ UNCHANGED <<persistent, fetcher, history>>

\* process_playlist: "already downloaded, skipping"
SkipVideo ==
    /\ pc = "item"
    /\ vi <= Len(videos)
    /\ AlreadyDownloaded(meta, CurrentVideo)
    /\ vi' = vi + 1
    /\ UNCHANGED <<pc, li, videos, gidx, meta>>
    /\ UNCHANGED <<persistent, fetcher, history>>

EnterDownload ==
    /\ pc' = "fetch"
    /\ attempt' = 1
    /\ waits' = <<>>
    /\ outcomes' = <<>>
    /\ dlResult' = NoPath

\* process_playlist: the video is in no other playlist, download it
StartDownload ==
    /\ pc = "item"
    /\ vi <= Len(videos)
    /\ ~AlreadyDownloaded(meta, CurrentVideo)
    /\ ~InGlobalIndex(gidx, CurrentVideo)
    /\ EnterDownload
    /\ copyRes' = "none"
    /\ UNCHANGED <<li, vi, videos, gidx, meta>>
    /\ UNCHANGED <<persistent, history>>

\* process_playlist: the video is in the global index, try
\* copy_video_from_another_playlist; on True record copied_from, glob for the
\* copy and go to the two saves; on False fall through to download_video
CopyVideo ==
    /\ pc = "item"
    /\ vi <= Len(videos)
    /\ ~AlreadyDownloaded(meta, CurrentVideo)
    /\ InGlobalIndex(gidx, CurrentVideo)
    /\ LET v      == CurrentVideo
           l      == CurrentList
           src    == SourceFile(gidx, v)
           target == MkPath(l, src.item, src.kind)
       IN  \/ \* source file not found
              /\ src \notin disk
              /\ copyRes' = "missing"
              /\ EnterDownload
              /\ UNCHANGED <<disk, gidx, meta>>
           \/ \* shutil.copy2 of the video raises (always so when source and
              \* target are the same file)
              /\ src \in disk
              /\ copyRes' = "error"
              /\ EnterDownload
              /\ UNCHANGED <<disk, gidx, meta>>
           \/ \* the video is copied, then shutil.copy2 of a sidecar raises
              /\ src \in disk
              /\ src.dir # l
              /\ copyRes' = "side_error"
              /\ disk' = disk \cup {target}
              /\ EnterDownload
              /\ UNCHANGED <<gidx, meta>>
           \/ \* everything is copied
              /\ src \in disk
              /\ src.dir # l
              /\ copyRes' = "ok"
              /\ disk' = disk \cup {target}
              /\ meta' = [meta EXCEPT ![v] = CopiedRec(run, SourceFile(gidx, v))]
              /\ LET found == GlobVideoId(disk', l, v)
                 IN  IF found = {}
                       THEN gidx' = gidx
                       ELSE \E fp \in found :
                              gidx' = [gidx EXCEPT ![v] = AppendIfAbsent(@, fp)]
              /\ pc' = "save_meta"
              /\ UNCHANGED <<attempt, waits, outcomes, dlResult>>
    /\ UNCHANGED <<li, vi, videos>>
    /\ UNCHANGED <<hasId, scenario, gidxDisk, gidxBad, metaDisk, metaBad, history>>

\* download_video: one pass of the retry loop. The connector either writes
\* the file (found by os.path.exists), raises, or returns without a file
\* that can be located.
DownloadAttempt ==
    /\ pc = "fetch"
    /\ \E o \in {"ok", "error", "nofile"} :
         /\ outcomes' = Append(outcomes, o)
         /\ IF o = "ok"
              THEN /\ disk' = disk \cup {MkPath(CurrentList, CurrentVideo, "media")}
                   /\ dlResult' = MkPath(CurrentList, CurrentVideo, "media")
                   /\ fetchedOnce' = fetchedOnce \cup {CurrentVideo}
                   /\ pc' = "downloaded"
                   /\ UNCHANGED <<attempt, waits>>
              ELSE /\ waits' = IF ShouldWait(o, attempt)
                                 THEN Append(waits, Backoff(attempt))
                                 ELSE waits
                   /\ IF attempt < LastAttempt
                        THEN /\ attempt' = attempt + 1
                             /\ pc' = "fetch"
                        ELSE /\ attempt' = attempt
                             /\ pc' = "downloaded"
                   /\ dlResult' = NoPath
                   /\ UNCHANGED <<disk, fetchedOnce>>
    /\ UNCHANGED <<li, vi, videos, gidx, meta, copyRes>>
    /\ UNCHANGED <<hasId, scenario, gidxDisk, gidxBad, metaDisk, metaBad>>
    /\ UNCHANGED <<run, outcome, full, done>>

\* process_playlist: the branch on download_video's return value
RecordDownload ==
    /\ pc = "downloaded"
    /\ LET v == CurrentVideo
       IN  IF dlResult # NoPath
             THEN /\ meta' = [meta EXCEPT ![v] = DownloadedFileRec(run, dlResult)]
                  /\ gidx' = [gidx EXCEPT ![v] = AppendFile(@, dlResult)]
             ELSE /\ meta' = [meta EXCEPT ![v] = FailedRec(run)]
                  /\ gidx' = gidx
    /\ pc' = "save_meta"
    /\ attempt' = 0
    /\ waits' = <<>>
    /\ outcomes' = <<>>
    /\ UNCHANGED <<li, vi, videos, copyRes, dlResult>>
    /\ UNCHANGED <<persistent, history>>

DownloadedIn(m) == {v \in Items : m[v].status = "downloaded"}

\* process_playlist: json.dump(metadata) into playlist_metadata.json
SaveMetadata ==
    /\ pc = "save_meta"
    /\ metaDisk' = [metaDisk EXCEPT ![CurrentList] = JsonRoundTrip(meta, NoRec)]
    /\ done' = done \cup {<<CurrentList, v>> : v \in DownloadedIn(meta)}
    /\ pc' = "save_index"
    /\ UNCHANGED <<li, vi, videos, gidx, meta>>
    /\ UNCHANGED <<disk, hasId, scenario, gidxDisk, gidxBad, metaBad>>
    /\ UNCHANGED <<fetcher, run, outcome, full, fetchedOnce>>

\* Variant: after the saves the loop stays on the same video.
SaveGlobalIndex_Stay ==
    /\ pc = "save_index"
    /\ gidxDisk' = JsonRoundTrip(gidx, <<>>)
    /\ pc' = "item"
    /\ FetcherReset
    /\ gidxBad' = FALSE
    /\ UNCHANGED <<li, vi, videos, gidx, meta>>
    /\ UNCHANGED <<disk, hasId, scenario, metaDisk, metaBad, history>>

\* _save_global_index, then the loop goes to the next video
SaveGlobalIndex ==
    /\ pc = "save_index"
    /\ gidxDisk' = JsonRoundTrip(gidx, <<>>)
    /\ vi' = vi + 1
    /\ pc' = "item"
    /\ FetcherReset
    /\ UNCHANGED <<li, videos, gidx, meta>>
    /\ gidxBad' = FALSE
    /\ UNCHANGED <<disk, hasId, scenario, metaDisk, metaBad, history>>

\* ------------------------------------------------------------------------
\* Environment
\* ------------------------------------------------------------------------
\* The process is killed (KeyboardInterrupt is no Exception, nothing catches
\* it). open(path, 'w') truncates before json.dump writes, so a kill inside
\* a save can leave that document cut short.
Interrupt ==
    /\ pc # "idle"
    /\ \/ /\ pc = "save_meta"
          /\ metaBad' = metaBad \cup {CurrentList}
          /\ metaDisk' = [metaDisk EXCEPT ![CurrentList] = EmptyMetadata]
          /\ UNCHANGED <<gidxBad, gidxDisk>>
       \/ /\ pc = "save_index"
          /\ gidxBad' = TRUE
          /\ gidxDisk' = EmptyIndex
          /\ UNCHANGED <<metaBad, metaDisk>>
       \/ UNCHANGED <<metaBad, metaDisk, gidxBad, gidxDisk>>
    /\ ProcessGone
    /\ outcome' = "interrupted"
    /\ full' = TRUE
    /\ UNCHANGED <<disk, hasId, scenario, run, done, fetchedOnce>>

\* A write fails (disk full): open(path, 'w') has truncated the document,
\* json.dump raises OSError, and the error propagates out of
\* process_playlist into run's except, which goes on to the next playlist.
SaveFails ==
    /\ \/ /\ pc = "save_meta"
          /\ metaBad' = metaBad \cup {CurrentList}
          /\ metaDisk' = [metaDisk EXCEPT ![CurrentList] = EmptyMetadata]
          /\ UNCHANGED <<gidxBad, gidxDisk>>
       \/ /\ pc = "save_index"
          /\ gidxBad' = TRUE
          /\ gidxDisk' = EmptyIndex
          /\ UNCHANGED <<metaBad, metaDisk>>
    /\ NextPlaylist(FALSE)
    /\ FetcherReset
    /\ UNCHANGED <<disk, hasId, scenario, run, done, fetchedOnce>>

\* Somebody removes a playlist's playlist_metadata.json between two runs
\* (the one way to get a playlist with an unreadable document processed
\* again); process_playlist then starts that playlist from 'videos': {}.
DeleteMetadata ==
    /\ pc = "idle"
    /\ \E l \in SeqToSet(ChannelPlaylists) :
         /\ l \in metaBad \/ metaDisk[l] # EmptyMetadata
         /\ metaDisk' = [metaDisk EXCEPT ![l] = EmptyMetadata]
         /\ metaBad' = metaBad \ {l}
    /\ UNCHANGED <<disk, hasId, scenario, gidxDisk, gidxBad>>
    /\ UNCHANGED <<process, fetcher, history>>

\* Somebody removes an archived file between two runs.
DeleteFile ==
    /\ pc = "idle"
    /\ \E p \in disk : disk' = disk \ {p}
    /\ UNCHANGED <<hasId, scenario, gidxDisk, gidxBad, metaDisk, metaBad>>
    /\ UNCHANGED <<process, fetcher, history>>

Next ==
    \/ Launch
    \/ RunStart
    \/ LoadPlaylist
    \/ FinishPlaylist
    \/ SkipVideo
    \/ StartDownload
    \/ CopyVideo
    \/ DownloadAttempt
    \/ RecordDownload
    \/ SaveMetadata
    \/ SaveGlobalIndex
    \/ Interrupt
    \/ DeleteFile

Spec == Init /\ [][Next]_vars

\* Complete runs only, and nobody touches the archive between them.
NextUndisturbed ==
    \/ Launch
    \/ RunStart
    \/ LoadPlaylist
    \/ FinishPlaylist
    \/ SkipVideo
    \/ StartDownload
    \/ CopyVideo
    \/ DownloadAttempt
    \/ RecordDownload
    \/ SaveMetadata
    \/ SaveGlobalIndex

SpecUndisturbed == Init /\ [][NextUndisturbed]_vars

\* The steps of a launched run: everything but the launch itself.
RunStep ==
    \/ RunStart
    \/ LoadPlaylist
    \/ FinishPlaylist
    \/ SkipVideo
    \/ StartDownload
    \/ CopyVideo
    \/ DownloadAttempt
    \/ RecordDownload
    \/ SaveMetadata
    \/ SaveGlobalIndex

\* Uninterrupted runs: the interpreter executes run() statement after
\* statement, so a launched run that can take a step eventually takes one.
\* Whether a run is launched at all is up to the user.
SpecUninterrupted == Init /\ [][NextUndisturbed]_vars /\ WF_vars(RunStep)

\* The channel whose List B has an entry without an id, complete runs.
SpecAnon == InitAnon /\ [][NextUndisturbed]_vars

\* Complete runs, and files may be removed between them.
NextNoKill ==
    \/ NextUndisturbed
    \/ DeleteFile

\* The channel with three playlists that share X.
SpecThree == InitThree /\ [][NextNoKill]_vars

\* Complete runs in which a write of a store may fail.
NextWriteErrors ==
    \/ NextUndisturbed
    \/ SaveFails

SpecWriteErrors == Init /\ [][NextWriteErrors]_vars

\* Complete runs, and status documents may be removed between them.
NextMetadataRemoved ==
    \/ NextUndisturbed
    \/ DeleteMetadata

SpecMetadataRemoved == Init /\ [][NextMetadataRemoved]_vars

TypeOK ==
    /\ pc \in {"idle", "run", "list", "item", "fetch", "downloaded", "save_meta", "save_index"}
    /\ run \in 0..MaxRuns
    /\ attempt \in 0..MAX_RETRIES

\* ------------------------------------------------------------------------
\* Properties
\* ------------------------------------------------------------------------
\* The step hands the current video to download_video.
FetcherInvoked == pc = "item" /\ pc' = "fetch"

\* The step hands the current video to copy_video_from_another_playlist.
ResolverInvoked == pc = "item" /\ copyRes' # "none"

\* Every enumerated video of every playlist is persisted as downloaded.
AllDownloaded ==
    \A l \in SeqToSet(ChannelPlaylists) :
        /\ l \notin metaBad
        /\ \A i \in 1..Len(PlaylistEntries(l)) :
               metaDisk[l][PlaylistEntries(l)[i]].status = "downloaded"

\* C1 - No double fetch: once a list's persisted status store has recorded
\* an item as downloaded, no step of any later run hands that item of that
\* list to the Fetcher or to the Duplication Resolver, whatever happened to
\* the files or the index in between.
C1_NoDoubleFetch ==
    [][(FetcherInvoked \/ ResolverInvoked)
          => <<CurrentList, CurrentVideo>> \notin done]_vars

\* A later run has just skipped a video recorded in an earlier run although
\* its file is gone from disk.
C1_Witness ==
    /\ pc = "item"
    /\ vi = 2
    /\ run = 2
    /\ <<CurrentList, videos[1]>> \in done
    /\ meta[videos[1]].status = "downloaded"
    /\ meta[videos[1]].at = 1
    /\ meta[videos[1]].file # NoPath
    /\ meta[videos[1]].file \notin disk

\* C2 as stated - Idempotence for every outcome of the first run: in a run
\* that follows a complete run, no step changes a List Status Store and no
\* step invokes the Fetcher.
C2_Original ==
    [][(pc # "idle" /\ pc' # "idle" /\ outcome = "finished")
          => (metaDisk' = metaDisk /\ metaBad' = metaBad /\ ~FetcherInvoked)]_vars

\* C2 amended - Idempotence when the first run left every item downloaded:
\* in a run that follows a complete run after which every enumerated item
\* is recorded as downloaded, no step changes a List Status Store and no
\* step invokes the Fetcher or the Duplication Resolver.
C2_Idempotent ==
    [][(pc # "idle" /\ outcome = "finished" /\ AllDownloaded)
          => /\ metaDisk' = metaDisk
             /\ metaBad' = metaBad
             /\ ~FetcherInvoked
             /\ ~ResolverInvoked]_vars

\* The second run has gone through the last playlist with everything
\* downloaded by the first.
C2_Witness ==
    /\ pc = "item"
    /\ run = 2
    /\ outcome = "finished"
    /\ AllDownloaded
    /\ li = Len(ChannelPlaylists)
    /\ Len(videos) > 0
    /\ vi > Len(videos)

\* C3 as stated - Dedup index invariant: after a first complete run over
\* all lists, every item's index record has at least one files entry per
\* list in which the item is recorded as downloaded.
C3_DedupIndex ==
    (pc = "idle" /\ run = 1 /\ outcome = "finished")
       => \A v \in Items :
             Len(gidxDisk[v]) >=
                Cardinality({l \in Lists : metaDisk[l][v].status = "downloaded"})

\* The current video is not downloaded in this list and the first file the
\* index records for it is on disk.
CopySourceAvailable ==
    /\ pc = "item"
    /\ vi <= Len(videos)
    /\ meta[CurrentVideo].status # "downloaded"
    /\ gidx[CurrentVideo] # <<>>
    /\ gidx[CurrentVideo][1] \in disk

\* C4 as stated - Duplicate instead of fetch: processing a video whose first
\* recorded file is on disk invokes the Duplication Resolver, never the
\* Fetcher, and records downloaded with copied_from = that path, no file.
C4_Original ==
    [][(CopySourceAvailable /\ pc' # "idle")
          => /\ ResolverInvoked
             /\ ~FetcherInvoked
             /\ meta'[CurrentVideo] =
                   [status |-> "downloaded", at |-> run, file |-> NoPath,
                    copied_from |-> gidx[CurrentVideo][1]]]_vars

\* C4 amended - processing such a video invokes the Duplication Resolver;
\* if all its copies complete, the Fetcher is not invoked and the record is
\* downloaded with copied_from = the first recorded path and no file; if a
\* copy raises, no record is written and the Fetcher is invoked.
C4_DuplicateOrFallBack ==
    [][(CopySourceAvailable /\ pc' # "idle")
          => /\ ResolverInvoked
             /\ copyRes' \in {"ok", "error", "side_error"}
             /\ (copyRes' = "ok")
                   => /\ ~FetcherInvoked
                      /\ pc' = "save_meta"
                      /\ meta'[CurrentVideo] =
                            [status |-> "downloaded", at |-> run, file |-> NoPath,
                             copied_from |-> gidx[CurrentVideo][1]]
             /\ (copyRes' # "ok") => (FetcherInvoked /\ meta' = meta)]_vars

\* A video has just been duplicated from a file that is on disk.
C4_Witness ==
    /\ pc = "save_meta"
    /\ copyRes = "ok"
    /\ meta[CurrentVideo].status = "downloaded"
    /\ meta[CurrentVideo].file = NoPath
    /\ meta[CurrentVideo].copied_from \in disk

\* The step is a download_video attempt that fetches the current video.
FetchSucceeds == pc = "fetch" /\ dlResult' # NoPath

\* C5 as stated - Fetch once across lists and runs: with complete runs and
\* no file removed, no item is successfully fetched a second time.
C5_Original ==
    [][FetchSucceeds => CurrentVideo \notin fetchedOnce]_vars

\* C5 amended - with complete runs and no file removed, an item is fetched
\* at most once per list, and a list fetches an item that was fetched
\* before only after the Duplication Resolver's copy into it raised.
C5_FetchOncePerList ==
    [][FetchSucceeds
          => /\ <<CurrentList, CurrentVideo>> \notin done
             /\ (CurrentVideo \in fetchedOnce)
                   => copyRes \in {"error", "side_error"}]_vars

\* After two complete runs an item shared by two lists is a copy in one of
\* them.
C5_Witness ==
    /\ pc = "idle"
    /\ run = 2
    /\ outcome = "finished"
    /\ AllDownloaded
    /\ \E l \in Lists, v \in Items : metaDisk[l][v].copied_from # NoPath

\* C6 - Bounded retries: a download_video call whose every attempt fails, by
\* a connector error or by no file being found, makes exactly MAX_RETRIES
\* attempts and then returns None to process_playlist.
C6_BoundedRetries ==
    /\ (pc = "fetch")
          => /\ attempt = Len(outcomes) + 1
             /\ Len(outcomes) < MAX_RETRIES
             /\ \A i \in 1..Len(outcomes) : outcomes[i] \in {"error", "nofile"}
    /\ (pc = "downloaded" /\ \A i \in 1..Len(outcomes) : outcomes[i] # "ok")
          => /\ Len(outcomes) = MAX_RETRIES
             /\ dlResult = NoPath
    /\ (pc = "downloaded" /\ dlResult = NoPath)
          => /\ Len(outcomes) = MAX_RETRIES
             /\ \A i \in 1..Len(outcomes) : outcomes[i] \in {"error", "nofile"}

\* download_video has returned None after failures of both kinds.
C6_Witness ==
    /\ pc = "downloaded"
    /\ dlResult = NoPath
    /\ \E i, j \in 1..Len(outcomes) : outcomes[i] = "error" /\ outcomes[j] = "nofile"

\* C7 as stated - Exponential backoff: a call whose every attempt failed,
\* in whichever way, has waited 2, 4 and 8 seconds.
C7_Original ==
    (pc = "downloaded" /\ dlResult = NoPath) => waits = <<2, 4, 8>>

\* The waits that follow from the attempts made so far: 2^k for every
\* attempt k below MAX_RETRIES that ended in a connector error.
RECURSIVE ErrorWaits(_, _)
ErrorWaits(os, k) ==
    IF k > Len(os)
      THEN <<>>
      ELSE (IF os[k] = "error" /\ k < MAX_RETRIES THEN <<2 ^ k>> ELSE <<>>)
              \o ErrorWaits(os, k + 1)

\* C7 amended - the Fetcher waits 2^k seconds after attempt k only when the
\* connector raised an error and k < MAX_RETRIES; it does not wait after an
\* attempt that found no file, nor after the last attempt, so a call whose
\* every attempt raised has waited 2 and 4 seconds.
C7_BackoffAfterError ==
    (pc \in {"fetch", "downloaded"})
       => /\ waits = ErrorWaits(outcomes, 1)
          /\ (outcomes = <<"error", "error", "error">>) => waits = <<2, 4>>
          /\ (outcomes = <<"nofile", "nofile", "nofile">>) => waits = <<>>

\* download_video has returned None after three connector errors.
C7_Witness ==
    /\ pc = "downloaded"
    /\ dlResult = NoPath
    /\ outcomes = <<"error", "error", "error">>
    /\ waits = <<2, 4>>

\* C8 - Repair path: when the first file recorded for a not yet downloaded
\* video is gone from disk, process_playlist goes on to download_video; on
\* success the record is downloaded with file (no copied_from), the stale
\* path stays first in files and the fetched path is appended.
C8_RepairPath ==
    /\ (copyRes = "missing")
          => pc \in {"fetch", "downloaded", "save_meta", "save_index"}
    /\ (pc \in {"save_meta", "save_index"} /\ copyRes = "missing" /\ dlResult # NoPath)
          => LET v == CurrentVideo
             IN  /\ meta[v].status = "downloaded"
                 /\ meta[v].file = dlResult
                 /\ meta[v].copied_from = NoPath
                 /\ gidxDisk[v] # <<>>
                 /\ gidx[v] = gidxDisk[v] \o <<dlResult>>
                 /\ dlResult = [dir |-> CurrentList, item |-> v, kind |-> "media"]
                 /\ dlResult \in disk
                 /\ (gidx[v][1] # dlResult) => gidx[v][1] \notin disk
                 /\ (pc = "save_index") => metaDisk[CurrentList][v] = meta[v]

\* A video whose recorded file was gone has been fetched again and recorded.
C8_Witness ==
    /\ pc = "save_index"
    /\ copyRes = "missing"
    /\ dlResult # NoPath
    /\ Len(gidx[CurrentVideo]) = 2

\* C9 - Item failure is absorbed: when download_video returns None the
\* record becomes failed and is persisted, the Global Item Index is
\* unchanged in memory and on disk, and the loop goes to the next video of
\* the same playlist.
C9_FailureAbsorbed ==
    [][/\ (pc = "downloaded" /\ dlResult = NoPath /\ pc' # "idle")
             => /\ meta'[CurrentVideo].status = "failed"
                /\ meta'[CurrentVideo].file = NoPath
                /\ meta'[CurrentVideo].copied_from = NoPath
                /\ gidx' = gidx
                /\ pc' = "save_meta"
       /\ (pc = "save_meta" /\ meta[CurrentVideo].status = "failed" /\ pc' # "idle")
             => /\ metaDisk'[CurrentList][CurrentVideo].status = "failed"
                /\ gidx' = gidx
                /\ pc' = "save_index"
       /\ (pc = "save_index" /\ meta[CurrentVideo].status = "failed" /\ pc' # "idle")
             => /\ gidxDisk' = gidxDisk
                /\ metaDisk' = metaDisk
                /\ pc' = "item"
                /\ li' = li
                /\ videos' = videos
                /\ vi' = vi + 1]_vars

\* The first video of a playlist failed in this run and the second one is
\* being downloaded.
C9_Witness ==
    /\ pc = "fetch"
    /\ vi = 2
    /\ metaDisk[CurrentList][videos[1]].status = "failed"
    /\ metaDisk[CurrentList][videos[1]].at = run

\* C10 as stated - Store corruption never crashes the run: a launch that
\* finds global_video_index.json unreadable goes on to run(), and
\* process_playlist on a playlist whose playlist_metadata.json is unreadable
\* goes on to that playlist's videos.
C10_CorruptionTolerated ==
    [][/\ (pc = "idle" /\ gidxBad /\ run' = run + 1) => pc' = "run"
       /\ (pc = "list" /\ CurrentList \in metaBad /\ outcome' # "interrupted")
             => (pc' = "item" /\ li' = li)]_vars

\* The video whose processing has started and is not yet saved.
InFlight ==
    IF pc \in {"fetch", "downloaded", "save_meta", "save_index"}
      THEN {CurrentVideo}
      ELSE {}

\* C11 as stated - Persist after every item: when a run is interrupted at
\* any point inside a playlist, the two documents hold afterwards, for every
\* video but the one in flight, the record and the paths the process had
\* for it (a document cut short holds nothing).
C11_PersistAfterEveryItem ==
    [][(/\ pc \in {"item", "fetch", "downloaded", "save_meta", "save_index"}
        /\ pc' = "idle"
        /\ outcome' = "interrupted")
          => \A u \in Items \ InFlight :
                /\ metaDisk'[CurrentList][u] = meta[u]
                /\ gidxDisk'[u] = gidx[u]]_vars

\* C12 as stated - Cross-store consistency: whenever no process runs and
\* the documents are readable, each item that some list's persisted status
\* store records as downloaded has a record in the persisted index.
C12_CrossStoreConsistent ==
    (pc = "idle" /\ ~gidxBad)
       => \A l \in Lists \ metaBad : \A v \in Items :
             (metaDisk[l][v].status = "downloaded") => gidxDisk[v] # <<>>

\* C13 as stated - Partial copy still counts as success: when the video has
\* been copied and the copy of a sidecar raises, the record becomes
\* downloaded with copied_from and the Fetcher is not invoked.
C13_PartialCopyCounts ==
    [][(pc = "item" /\ copyRes' = "side_error")
          => /\ ~FetcherInvoked
             /\ meta'[CurrentVideo].status = "downloaded"
             /\ meta'[CurrentVideo].copied_from = gidx[CurrentVideo][1]]_vars

\* C14 as stated - Unresolvable items are skipped: an entry for which the
\* connector supplied no id is passed over: neither the Fetcher nor the
\* Duplication Resolver is invoked for it, no record is written for it and
\* the loop goes to the next entry.
C14_UnresolvableSkipped ==
    [][(pc = "item" /\ vi <= Len(videos) /\ CurrentVideo = NoId /\ pc' # "idle")
          => /\ ~FetcherInvoked
             /\ ~ResolverInvoked
             /\ pc' = "item"
             /\ vi' = vi + 1
             /\ UNCHANGED <<meta, gidx, metaDisk, gidxDisk>>]_vars

\* Every record a status store holds, in memory or on disk.
AllRecords ==
    {metaDisk[l][k] : l \in Lists, k \in Keys} \cup {meta[k] : k \in Keys}

\* C15 - Provenance invariant: a record with status downloaded carries
\* exactly one of file and copied_from and a timestamp; a record with
\* status failed carries neither provenance field; this holds as well for a
\* downloaded record that replaces a failed one.
C15_Provenance ==
    \A r \in AllRecords :
        /\ r.status \in {"none", "downloaded", "failed"}
        /\ (r.status = "downloaded")
              => /\ (r.file # NoPath) # (r.copied_from # NoPath)
                 /\ r.at >= 1
        /\ (r.status = "failed")
              => /\ r.file = NoPath
                 /\ r.copied_from = NoPath
                 /\ r.at >= 1

\* A record persisted as failed has just been replaced in memory by a
\* downloaded one made by a copy.
C15_Witness ==
    /\ pc = "save_meta"
    /\ metaDisk[CurrentList][CurrentVideo].status = "failed"
    /\ meta[CurrentVideo].status = "downloaded"
    /\ meta[CurrentVideo].copied_from # NoPath

\* C17 - Skip leaves the stores untouched: processing a video already
\* recorded as downloaded changes no record and no index entry, in memory or
\* on disk, and while every video is recorded as downloaded no step outside
\* the save that completed it changes a persisted store.
C17_SkipLeavesStores ==
    [][/\ (/\ pc = "item"
           /\ vi <= Len(videos)
           /\ meta[CurrentVideo].status = "downloaded"
           /\ pc' # "idle")
             => /\ pc' = "item"
                /\ vi' = vi + 1
                /\ UNCHANGED <<meta, gidx, metaDisk, metaBad, gidxDisk, gidxBad, disk>>
       /\ (AllDownloaded /\ pc # "save_index")
             => UNCHANGED <<metaDisk, metaBad, gidxDisk, gidxBad>>]_vars

\* The second run has skipped a video recorded by the first, and the record
\* still carries the first run's timestamp, in memory and on disk.
C17_Witness ==
    /\ pc = "item"
    /\ run = 2
    /\ vi = 2
    /\ meta[videos[1]].status = "downloaded"
    /\ meta[videos[1]].at = 1
    /\ metaDisk[CurrentList] = meta
    /\ gidxDisk = gidx

\* C19 - Failed items are picked up again: a video whose record is failed
\* is not skipped; it goes to the Duplication Resolver when the index knows
\* it and otherwise to the Fetcher, and every Fetcher call made for it
\* starts at attempt 1 with nothing waited.
C19_FailedRetried ==
    [][(/\ pc = "item"
        /\ vi <= Len(videos)
        /\ meta[CurrentVideo].status = "failed"
        /\ pc' # "idle")
          => /\ vi' = vi
             /\ pc' \in {"fetch", "save_meta"}
             /\ (gidx[CurrentVideo] # <<>>) => ResolverInvoked
             /\ (gidx[CurrentVideo] = <<>>) => (FetcherInvoked /\ ~ResolverInvoked)
             /\ (pc' = "fetch")
                   => (attempt' = 1 /\ outcomes' = <<>> /\ waits' = <<>>)]_vars

\* A video that failed in an earlier run is in its first attempt again.
C19_Witness ==
    /\ pc = "fetch"
    /\ attempt = 1
    /\ outcomes = <<>>
    /\ meta[CurrentVideo].status = "failed"
    /\ meta[CurrentVideo].at < run

\* The step is not a kill of the process.
NotKilled == ~(pc # "idle" /\ pc' = "idle" /\ outcome' = "interrupted")

\* The run loop goes to the next playlist, or ends after the last one.
MovesOn ==
    IF li < Len(ChannelPlaylists)
      THEN pc' = "list" /\ li' = li + 1 /\ gidx' = gidx
      ELSE pc' = "idle" /\ outcome' = "partial"

\* C20 as stated - List-level failure isolation: when the enumeration of a
\* playlist's videos fails, or process_playlist raises (on unreadable
\* metadata, or on a write that fails), the persisted stores and the files
\* keep their content and the run loop goes on to the next playlist.
C20_ListFailureIsolated ==
    [][/\ (pc = "list" /\ CurrentList \in metaBad /\ NotKilled)
             => /\ UNCHANGED <<metaDisk, metaBad, gidxDisk, gidxBad, disk>>
                /\ MovesOn
       /\ (pc = "list" /\ pc' = "item" /\ videos' = <<>>)
             => /\ UNCHANGED <<metaDisk, metaBad, gidxDisk, gidxBad, disk, gidx, li>>
       /\ (pc = "item" /\ videos = <<>> /\ NotKilled)
             => /\ UNCHANGED <<metaDisk, metaBad, gidxDisk, gidxBad, disk>>
                /\ MovesOn
       /\ (pc \in {"save_meta", "save_index"} /\ pc' \in {"list", "idle"} /\ NotKilled)
             => /\ UNCHANGED <<metaDisk, metaBad, gidxDisk, gidxBad, disk>>
                /\ MovesOn]_vars

\* The sequence holds no element twice.
NoDuplicates(s) == \A i, j \in 1..Len(s) : (s[i] = s[j]) => (i = j)

\* C16 as stated - No duplicate paths: the files sequence of every record of
\* the global index, in memory and on disk, holds no path twice.
C16_NoDuplicatePaths ==
    \A k \in Keys : NoDuplicates(gidx[k]) /\ NoDuplicates(gidxDisk[k])

Resolved(l, v) == metaDisk[l][v].status \in {"downloaded", "failed"}

\* C21 - Run completes and resolves every item: an uninterrupted run
\* terminates, every download_video call returns within MAX_RETRIES
\* attempts, and when the processing of a playlist ends every enumerated
\* video that has an id has a downloaded or failed record in that playlist's
\* status document; after a run in which every enumeration succeeded this
\* holds for every video of every playlist.
C21_RunResolvesEveryItem ==
    /\ (pc # "idle") ~> (pc = "idle")
    /\ (pc = "fetch") ~> (pc = "downloaded")
    /\ [](pc = "fetch" => attempt \in 1..MAX_RETRIES)
    /\ []((pc = "idle" /\ outcome = "finished")
             => \A i \in 1..Len(ChannelPlaylists) :
                   \A v \in SeqToSet(PlaylistEntries(ChannelPlaylists[i])) \cap Items :
                      Resolved(ChannelPlaylists[i], v))
    /\ [][(pc = "item" /\ pc' \in {"list", "idle"})
             => \A v \in SeqToSet(videos) \cap Items : Resolved(CurrentList, v)]_vars

\* A run has ended after enumerating every playlist, with one video
\* recorded as failed and another as downloaded.
C21_Witness ==
    /\ pc = "idle"
    /\ outcome = "finished"
    /\ \E l \in Lists, v \in Items : metaDisk[l][v].status = "failed"
    /\ \E l \in Lists, v \in Items : metaDisk[l][v].status = "downloaded"

\* C22 - Fetcher stops at the first success: the attempt that succeeds is
\* the last one of its download_video call, the call returns the located
\* file without another attempt or wait, and no call makes more than
\* MAX_RETRIES attempts.
C22_StopsAtFirstSuccess ==
    /\ [](/\ Len(outcomes) <= MAX_RETRIES
          /\ (pc = "fetch") => \A i \in 1..Len(outcomes) : outcomes[i] # "ok"
          /\ (pc = "downloaded" /\ dlResult # NoPath)
                => /\ outcomes[Len(outcomes)] = "ok"
                   /\ \A i \in 1..(Len(outcomes) - 1) : outcomes[i] # "ok"
                   /\ dlResult \in disk
                   /\ Len(waits) < Len(outcomes))
    /\ [][/\ (pc = "fetch" /\ Len(outcomes') = Len(outcomes) + 1
                 /\ outcomes'[Len(outcomes')] = "ok")
               => /\ pc' = "downloaded"
                  /\ dlResult' = MkPath(CurrentList, CurrentVideo, "media")
                  /\ UNCHANGED <<attempt, waits>>
          /\ (pc = "downloaded" /\ pc' # "idle")
               => /\ pc' = "save_meta"
                  /\ outcomes' = <<>>
                  /\ waits' = <<>>]_vars

\* download_video has returned a file from its second attempt, after one
\* wait.
C22_Witness ==
    /\ pc = "downloaded"
    /\ dlResult # NoPath
    /\ outcomes = <<"error", "ok">>
    /\ waits = <<2>>

====
